---- MODULE Spec2Model ----
(***************************************************************************)
(* hermes-rs: a configuration-driven webhook relay.                        *)
(*                                                                         *)
(* Text (String) is a sequence of one-character strings, so that parsing,  *)
(* rendering, escaping, upper-casing and path formatting are computed on   *)
(* characters.  The alphabet of the texts of this model is: the JSON       *)
(* punctuation  { } [ ] : , "  the space, the quote ', the slash, decimal  *)
(* digits and ASCII letters.  Backslash escapes, signs, fractions and      *)
(* exponents are outside the alphabet.                                     *)
(***************************************************************************)
EXTENDS Integers, Sequences, FiniteSets, TLC

\* ------------------------------------------------------------------------
\* Bounds of the model.
\* ------------------------------------------------------------------------
\* Number of request tasks that can be in flight at the same time.  Request
\* tasks share nothing but the read-only AppState.
MaxInFlight == 1

\* ------------------------------------------------------------------------
\* serde_json::Value
\* ------------------------------------------------------------------------
Null == [t |-> "null"]
Bool(b) == [t |-> "bool", b |-> b]
Num(n) == [t |-> "num", n |-> n]
Str(s) == [t |-> "str", s |-> s]
Arr(a) == [t |-> "arr", a |-> a]
Obj(m) == [t |-> "obj", m |-> m]

\* serde_json::Map: a map from key texts to values; insert replaces.
EmptyMap == [k \in {} |-> Null]
MapInsert(m, k, v) == [x \in (DOMAIN m) \cup {k} |-> IF x = k THEN v ELSE m[x]]

Digits == {"0", "1", "2", "3", "4", "5", "6", "7", "8", "9"}
DigitVal(c) ==
    CASE c = "0" -> 0 [] c = "1" -> 1 [] c = "2" -> 2 [] c = "3" -> 3
      [] c = "4" -> 4 [] c = "5" -> 5 [] c = "6" -> 6 [] c = "7" -> 7
      [] c = "8" -> 8 [] c = "9" -> 9
DigitChar(d) ==
    CASE d = 0 -> "0" [] d = 1 -> "1" [] d = 2 -> "2" [] d = 3 -> "3"
      [] d = 4 -> "4" [] d = 5 -> "5" [] d = 6 -> "6" [] d = 7 -> "7"
      [] d = 8 -> "8" [] d = 9 -> "9"

\* The character of s at position i, or the marker "EOF" past the end.
At(s, i) == IF i >= 1 /\ i <= Len(s) THEN s[i] ELSE "EOF"

\* TRUE iff the text lit occurs in s at position i.
StartsAt(s, i, lit) ==
    /\ i + Len(lit) - 1 <= Len(s)
    /\ \A k \in 1..Len(lit) : s[i + k - 1] = lit[k]

\* ------------------------------------------------------------------------
\* serde_json::from_str, a recursive-descent parser.  A result is
\* [ok, v, next]: next is the position after the parsed value.
\* ------------------------------------------------------------------------
ParseErr == [ok |-> FALSE, v |-> Null, next |-> 0]
ParseOk(v, next) == [ok |-> TRUE, v |-> v, next |-> next]

RECURSIVE SkipWs(_, _)
SkipWs(s, i) == IF At(s, i) = " " THEN SkipWs(s, i + 1) ELSE i

\* The characters of a string up to the closing quote; i is after the
\* opening quote.
RECURSIVE ParseStringBody(_, _, _)
ParseStringBody(s, i, acc) ==
    LET c == At(s, i) IN
    IF c = "EOF" THEN ParseErr
    ELSE IF c = "\"" THEN ParseOk(acc, i + 1)
    ELSE ParseStringBody(s, i + 1, Append(acc, c))

\* A run of digits starting at i (s[i] is a digit other than a leading 0).
RECURSIVE ParseDigits(_, _, _)
ParseDigits(s, i, acc) ==
    IF At(s, i) \in Digits
    THEN ParseDigits(s, i + 1, acc * 10 + DigitVal(s[i]))
    ELSE ParseOk(Num(acc), i)

ParseNumber(s, i) ==
    IF s[i] = "0"
    THEN (IF At(s, i + 1) \in Digits THEN ParseErr ELSE ParseOk(Num(0), i + 1))
    ELSE ParseDigits(s, i, 0)

RECURSIVE ParseValue(_, _)
RECURSIVE ParseElements(_, _, _)
RECURSIVE ParseMembers(_, _, _)

\* Array elements; i is at the start of an element.
ParseElements(s, i, acc) ==
    LET e == ParseValue(s, i) IN
    IF ~e.ok THEN ParseErr
    ELSE LET j == SkipWs(s, e.next)
             c == At(s, j)
         IN  IF c = "," THEN ParseElements(s, j + 1, Append(acc, e.v))
             ELSE IF c = "]" THEN ParseOk(Arr(Append(acc, e.v)), j + 1)
             ELSE ParseErr

\* Object members; i is where a key must start.
ParseMembers(s, i, acc) ==
    LET j == SkipWs(s, i) IN
    IF At(s, j) # "\"" THEN ParseErr
    ELSE LET k == ParseStringBody(s, j + 1, <<>>) IN
         IF ~k.ok THEN ParseErr
         ELSE LET c == SkipWs(s, k.next) IN
              IF At(s, c) # ":" THEN ParseErr
              ELSE LET e == ParseValue(s, c + 1) IN
                   IF ~e.ok THEN ParseErr
                   ELSE LET n == SkipWs(s, e.next)
                            m == MapInsert(acc, k.v, e.v)
                        IN  IF At(s, n) = "," THEN ParseMembers(s, n + 1, m)
                            ELSE IF At(s, n) = "}" THEN ParseOk(Obj(m), n + 1)
                            ELSE ParseErr

ParseValue(s, i) ==
    LET j == SkipWs(s, i)
        c == At(s, j)
    IN  IF c = "{" THEN
            (IF At(s, SkipWs(s, j + 1)) = "}"
             THEN ParseOk(Obj(EmptyMap), SkipWs(s, j + 1) + 1)
             ELSE ParseMembers(s, j + 1, EmptyMap))
        ELSE IF c = "[" THEN
            (IF At(s, SkipWs(s, j + 1)) = "]"
             THEN ParseOk(Arr(<<>>), SkipWs(s, j + 1) + 1)
             ELSE ParseElements(s, j + 1, <<>>))
        ELSE IF c = "\"" THEN
            (LET r == ParseStringBody(s, j + 1, <<>>) IN
             IF r.ok THEN ParseOk(Str(r.v), r.next) ELSE ParseErr)
        ELSE IF c \in Digits THEN ParseNumber(s, j)
        ELSE IF StartsAt(s, j, <<"t", "r", "u", "e">>) THEN ParseOk(Bool(TRUE), j + 4)
        ELSE IF StartsAt(s, j, <<"f", "a", "l", "s", "e">>) THEN ParseOk(Bool(FALSE), j + 5)
        ELSE IF StartsAt(s, j, <<"n", "u", "l", "l">>) THEN ParseOk(Null, j + 4)
        ELSE ParseErr

\* serde_json::from_str::<Value>: one value, then only whitespace.
\* [ok, v]; on failure v is Null and carries no information.
FromStr(s) ==
    LET r == ParseValue(s, 1) IN
    IF r.ok /\ SkipWs(s, r.next) = Len(s) + 1
    THEN [ok |-> TRUE, v |-> r.v]
    ELSE [ok |-> FALSE, v |-> Null]

\* ------------------------------------------------------------------------
\* Text helpers
\* ------------------------------------------------------------------------
LowerCase == <<"a", "b", "c", "d", "e", "f", "g", "h", "i", "j", "k", "l", "m",
               "n", "o", "p", "q", "r", "s", "t", "u", "v", "w", "x", "y", "z">>
UpperCase == <<"A", "B", "C", "D", "E", "F", "G", "H", "I", "J", "K", "L", "M",
               "N", "O", "P", "Q", "R", "S", "T", "U", "V", "W", "X", "Y", "Z">>

UpperChar(c) ==
    IF \E k \in 1..Len(LowerCase) : LowerCase[k] = c
    THEN UpperCase[CHOOSE k \in 1..Len(LowerCase) : LowerCase[k] = c]
    ELSE c

\* str::to_uppercase
ToUppercase(s) == [k \in 1..Len(s) |-> UpperChar(s[k])]

\* u64/usize Display: the decimal digits of n.
RECURSIVE NumToString(_)
NumToString(n) ==
    IF n < 10 THEN <<DigitChar(n)>>
    ELSE Append(NumToString(n \div 10), DigitChar(n % 10))

RECURSIVE Concat(_)
Concat(ss) == IF ss = <<>> THEN <<>> ELSE Head(ss) \o Concat(Tail(ss))

\* ------------------------------------------------------------------------
\* json_to_template_data (main.rs and lib.rs carry the same function)
\* ------------------------------------------------------------------------
DataKey == <<"d", "a", "t", "a">>

\* A variant that wraps every value, objects too.
json_to_template_data_wrap_all(value) == MapInsert(EmptyMap, DataKey, value)

json_to_template_data(value) ==
    IF value.t = "obj" THEN value.m
    ELSE MapInsert(EmptyMap, DataKey, value)

\* ------------------------------------------------------------------------
\* The template engine (handlebars), as AppState::new and handle_webhook
\* use it: register_template_string compiles a source text, render runs a
\* compiled template against a data map.  A compiled template is a
\* sequence of elements: literal text, an escaped expression {{name}}, a
\* raw expression {{{name}}}, or a helper call {{name arg ...}}.
\* ------------------------------------------------------------------------
\* Position of the first occurrence of lit in s at or after i; 0 if none.
RECURSIVE Find(_, _, _)
Find(s, i, lit) ==
    IF i + Len(lit) - 1 > Len(s) THEN 0
    ELSE IF StartsAt(s, i, lit) THEN i
    ELSE Find(s, i + 1, lit)

\* The words of s, separated by spaces.
RECURSIVE Words(_, _, _, _)
Words(s, i, cur, acc) ==
    IF i > Len(s) THEN (IF cur = <<>> THEN acc ELSE Append(acc, cur))
    ELSE IF s[i] = " "
         THEN Words(s, i + 1, <<>>, IF cur = <<>> THEN acc ELSE Append(acc, cur))
         ELSE Words(s, i + 1, Append(cur, s[i]), acc)

CompileErr == [ok |-> FALSE, elems |-> <<>>]

\* One expression: the text between the braces.
Expression(inner, escaped) ==
    LET w == Words(inner, 1, <<>>, <<>>) IN
    IF Len(w) = 1
    THEN [k |-> "expr", name |-> w[1], escaped |-> escaped]
    ELSE [k |-> "helper", name |-> w[1], escaped |-> escaped]

RECURSIVE CompileFrom(_, _, _, _)
CompileFrom(s, i, text, elems) ==
    LET flushed == IF text = <<>> THEN elems
                   ELSE Append(elems, [k |-> "text", name |-> text, escaped |-> FALSE])
    IN
    IF i > Len(s) THEN [ok |-> TRUE, elems |-> flushed]
    ELSE IF StartsAt(s, i, <<"{", "{", "{">>) THEN
        (LET c == Find(s, i + 3, <<"}", "}", "}">>) IN
         IF c = 0 \/ Words(SubSeq(s, i + 3, c - 1), 1, <<>>, <<>>) = <<>>
         THEN CompileErr
         ELSE CompileFrom(s, c + 3, <<>>,
                  Append(flushed, Expression(SubSeq(s, i + 3, c - 1), FALSE))))
    ELSE IF StartsAt(s, i, <<"{", "{">>) THEN
        (LET c == Find(s, i + 2, <<"}", "}">>) IN
         IF c = 0 \/ Words(SubSeq(s, i + 2, c - 1), 1, <<>>, <<>>) = <<>>
         THEN CompileErr
         ELSE CompileFrom(s, c + 2, <<>>,
                  Append(flushed, Expression(SubSeq(s, i + 2, c - 1), TRUE))))
    ELSE CompileFrom(s, i + 1, Append(text, s[i]), elems)

\* Handlebars::register_template_string: [ok, elems].
Compile(src) == CompileFrom(src, 1, <<>>, <<>>)

\* The engine's default escape function.
EscapeChar(c) ==
    CASE c = "\"" -> <<"&", "q", "u", "o", "t", ";">>
      [] c = "'" -> <<"&", "#", "x", "2", "7", ";">>
      [] c = "&" -> <<"&", "a", "m", "p", ";">>
      [] c = "<" -> <<"&", "l", "t", ";">>
      [] c = ">" -> <<"&", "g", "t", ";">>
      [] OTHER -> <<c>>

HtmlEscape(s) == Concat([k \in 1..Len(s) |-> EscapeChar(s[k])])

\* How the engine prints a JSON value in an expression.
RECURSIVE JsonRender(_)
JsonRender(v) ==
    CASE v.t = "str" -> v.s
      [] v.t = "bool" -> (IF v.b THEN <<"t", "r", "u", "e">>
                          ELSE <<"f", "a", "l", "s", "e">>)
      [] v.t = "num" -> NumToString(v.n)
      [] v.t = "null" -> <<>>
      [] v.t = "arr" ->
            <<"[">> \o
            Concat([k \in 1..Len(v.a) |->
                      JsonRender(v.a[k]) \o
                      (IF k < Len(v.a) THEN <<",", " ">> ELSE <<>>)]) \o
            <<"]">>
      [] v.t = "obj" -> <<"[", "o", "b", "j", "e", "c", "t", "]">>

\* One element rendered against the data map: [ok, s].  A name that the
\* data does not have renders as the empty text; a helper call fails, no
\* helper of that name being registered.
RenderElem(e, data) ==
    CASE e.k = "text" -> [ok |-> TRUE, s |-> e.name]
      [] e.k = "expr" ->
            (LET raw == IF e.name \in DOMAIN data THEN JsonRender(data[e.name])
                        ELSE <<>>
             IN  [ok |-> TRUE, s |-> IF e.escaped THEN HtmlEscape(raw) ELSE raw])
      [] e.k = "helper" -> [ok |-> FALSE, s |-> <<>>]

\* Handlebars::render of a compiled template: [ok, s].
RenderElems(elems, data) ==
    IF \E k \in 1..Len(elems) : ~RenderElem(elems[k], data).ok
    THEN [ok |-> FALSE, s |-> <<>>]
    ELSE [ok |-> TRUE,
          s |-> Concat([k \in 1..Len(elems) |-> RenderElem(elems[k], data).s])]

\* Handlebars::render(name, data) on the engine's registry of compiled
\* templates hb: fails if no template of that name is registered.
Render(hb, name, data) ==
    IF name \notin DOMAIN hb THEN [ok |-> FALSE, s |-> <<>>]
    ELSE RenderElems(hb[name], data)

\* ------------------------------------------------------------------------
\* Configuration (config.rs) and AppState::new
\* ------------------------------------------------------------------------
None == [some |-> FALSE]
Some(x) == [some |-> TRUE, v |-> x]

default_retry_attempts == 3
default_retry_delay_ms == 1000

\* AppSettings::default
DefaultSettings ==
    [retry_attempts |-> default_retry_attempts,
     retry_delay_ms |-> default_retry_delay_ms,
     enable_metrics |-> FALSE]

\* format!("template_{}", index)
TemplateName(index) ==
    <<"t", "e", "m", "p", "l", "a", "t", "e", "_">> \o NumToString(index)

\* The loop of AppState::new from the register at position index (0-based)
\* on: [ok, registers, handlebars]; ok is FALSE when a template does not
\* compile (the expect panics).
\* A variant that leaves out a template that does not compile.
RECURSIVE BuildRegistry_skip_failed(_, _, _, _)
BuildRegistry_skip_failed(regs, index, registers, handlebars) ==
    IF index >= Len(regs)
    THEN [ok |-> TRUE, registers |-> registers, handlebars |-> handlebars]
    ELSE LET register == regs[index + 1]
             template_name == TemplateName(index)
             compiled == Compile(register.template)
         IN  IF ~compiled.ok
             THEN BuildRegistry_skip_failed(regs, index + 1, registers, handlebars)
             ELSE BuildRegistry_skip_failed(regs, index + 1,
                      MapInsert(registers, register.endpoint,
                                [register EXCEPT !.template = template_name]),
                      MapInsert(handlebars, template_name, compiled.elems))

\* A variant that keeps the entry an endpoint already has.
RECURSIVE BuildRegistry_keep_first(_, _, _, _)
BuildRegistry_keep_first(regs, index, registers, handlebars) ==
    IF index >= Len(regs)
    THEN [ok |-> TRUE, registers |-> registers, handlebars |-> handlebars]
    ELSE LET register == regs[index + 1]
             template_name == TemplateName(index)
             compiled == Compile(register.template)
         IN  IF ~compiled.ok
             THEN [ok |-> FALSE, registers |-> EmptyMap, handlebars |-> EmptyMap]
             ELSE BuildRegistry_keep_first(regs, index + 1,
                      IF register.endpoint \in DOMAIN registers
                      THEN registers
                      ELSE MapInsert(registers, register.endpoint,
                                     [register EXCEPT !.template = template_name]),
                      MapInsert(handlebars, template_name, compiled.elems))

RECURSIVE BuildRegistry(_, _, _, _)
BuildRegistry(regs, index, registers, handlebars) ==
    IF index >= Len(regs)
    THEN [ok |-> TRUE, registers |-> registers, handlebars |-> handlebars]
    ELSE LET register == regs[index + 1]
             template_name == TemplateName(index)
             compiled == Compile(register.template)
         IN  IF ~compiled.ok
             THEN [ok |-> FALSE, registers |-> EmptyMap, handlebars |-> EmptyMap]
             ELSE BuildRegistry(regs, index + 1,
                      MapInsert(registers, register.endpoint,
                                [register EXCEPT !.template = template_name]),
                      MapInsert(handlebars, template_name, compiled.elems))

AppStateNew(cfg) == BuildRegistry(cfg.registers, 0, EmptyMap, EmptyMap)

\* ------------------------------------------------------------------------
\* Responses
\* ------------------------------------------------------------------------
\* ErrorResponse { error }: msg is the fixed text of the message, arg the
\* text formatted after it (for an error of a library, the name of the
\* error type stands for its message).
ErrorResponse(msg, arg) == [error |-> [msg |-> msg, arg |-> arg]]
NoArg == <<>>
SerdeError == <<"serde_json::Error">>
RenderError == <<"handlebars::RenderError">>
ReqwestError == <<"reqwest::Error">>

NoBody == [empty |-> TRUE]
NoResponse == [status |-> 0, body |-> NoBody]
Response(status, body) == [status |-> status, body |-> body]

\* The result of the part of handle_webhook that runs before the first
\* await: the stages executed, a terminal response (done) or the outbound
\* request that is sent (out), and template_data once it is computed.
Terminal(stages, status, msg, arg, td) ==
    [stages |-> stages, done |-> TRUE,
     resp |-> Response(status, ErrorResponse(msg, arg)),
     out |-> <<>>, template_data |-> td]

Outbound(verb, url, json) ==
    [verb |-> verb, url |-> url,
     content_type |-> "application/json", json |-> json]

Sent(stages, request, td) ==
    [stages |-> stages, done |-> FALSE, resp |-> NoResponse,
     out |-> <<request>>, template_data |-> td]

\* ------------------------------------------------------------------------
\* handle_webhook, stage by stage (each stage runs the following ones)
\* ------------------------------------------------------------------------
GET == <<"G", "E", "T">>
POST == <<"P", "O", "S", "T">>
PUT == <<"P", "U", "T">>
DELETE == <<"D", "E", "L", "E", "T", "E">>
PATCH == <<"P", "A", "T", "C", "H">>

SupportedMethods == {GET, POST, PUT, DELETE, PATCH}

\* The text of a verb of the HTTP client.
VerbText(verb) ==
    CASE verb = "GET" -> GET [] verb = "POST" -> POST [] verb = "PUT" -> PUT
      [] verb = "DELETE" -> DELETE [] verb = "PATCH" -> PATCH

\* A variant that matches the configured method as written, without
\* to_uppercase.
SendToTarget_case_sensitive(register, payload_json, stages, td) ==
    LET method == register.target.method
        url == register.target.url
        issued == stages \o <<"method", "send">>
    IN  CASE method = GET -> Sent(issued, Outbound("GET", url, payload_json), td)
          [] method = POST -> Sent(issued, Outbound("POST", url, payload_json), td)
          [] method = PUT -> Sent(issued, Outbound("PUT", url, payload_json), td)
          [] method = DELETE -> Sent(issued, Outbound("DELETE", url, payload_json), td)
          [] method = PATCH -> Sent(issued, Outbound("PATCH", url, payload_json), td)
          [] OTHER -> Terminal(Append(stages, "method"), 500,
                               "Unsupported HTTP method: ", method, td)

\* main.rs 132-153: map the target method to a verb and send the request.
\* A variant that adds the headers of the target to the outbound request.
SendToTarget_with_headers(register, payload_json, stages, td) ==
    LET method == ToUppercase(register.target.method)
        url == register.target.url
        issued == stages \o <<"method", "send">>
        headers == [headers |-> register.target.headers]
    IN  CASE method = GET ->
                 Sent(issued, Outbound("GET", url, payload_json) @@ headers, td)
          [] method = POST ->
                 Sent(issued, Outbound("POST", url, payload_json) @@ headers, td)
          [] method = PUT ->
                 Sent(issued, Outbound("PUT", url, payload_json) @@ headers, td)
          [] method = DELETE ->
                 Sent(issued, Outbound("DELETE", url, payload_json) @@ headers, td)
          [] method = PATCH ->
                 Sent(issued, Outbound("PATCH", url, payload_json) @@ headers, td)
          [] OTHER -> Terminal(Append(stages, "method"), 500,
                               "Unsupported HTTP method: ", method, td)

SendToTarget(register, payload_json, stages, td) ==
    LET method == ToUppercase(register.target.method)
        url == register.target.url
        issued == stages \o <<"method", "send">>
    IN  CASE method = GET -> Sent(issued, Outbound("GET", url, payload_json), td)
          [] method = POST -> Sent(issued, Outbound("POST", url, payload_json), td)
          [] method = PUT -> Sent(issued, Outbound("PUT", url, payload_json), td)
          [] method = DELETE -> Sent(issued, Outbound("DELETE", url, payload_json), td)
          [] method = PATCH -> Sent(issued, Outbound("PATCH", url, payload_json), td)
          [] OTHER -> Terminal(Append(stages, "method"), 500,
                               "Unsupported HTTP method: ", method, td)

\* A variant that rejects an unsupported target method before it validates
\* the rendered payload.
ValidateRendered_after_method(register, rendered_payload, stages, td) ==
    LET payload_json == FromStr(rendered_payload)
        method == ToUppercase(register.target.method)
    IN  IF method \notin SupportedMethods
        THEN Terminal(Append(stages, "method"), 500,
                      "Unsupported HTTP method: ", method, td)
        ELSE IF ~payload_json.ok
        THEN Terminal(Append(stages, "validate"), 500,
                      "Rendered template is not valid JSON: ", SerdeError, td)
        ELSE SendToTarget(register, payload_json.v, Append(stages, "validate"), td)

\* A variant that forwards a rendered payload that is not JSON as a JSON
\* string, the way the target's body is relayed.
ValidateRendered_lenient(register, rendered_payload, stages, td) ==
    LET payload_json == FromStr(rendered_payload) IN
    SendToTarget(register,
                 IF payload_json.ok THEN payload_json.v ELSE Str(rendered_payload),
                 Append(stages, "validate"), td)

\* main.rs 122-130: the rendered payload must parse as JSON.
ValidateRendered(register, rendered_payload, stages, td) ==
    LET payload_json == FromStr(rendered_payload)
        here == Append(stages, "validate")
    IN  IF ~payload_json.ok
        THEN Terminal(here, 500, "Rendered template is not valid JSON: ",
                      SerdeError, td)
        ELSE SendToTarget(register, payload_json.v, here, td)

\* main.rs 106-120: wrap the parsed body and render the rule's template.
RenderTemplate(st, register, request_data, stages) ==
    LET template_data == json_to_template_data(request_data)
        rendered == Render(st.handlebars, register.template, template_data)
        here == Append(stages, "render")
    IN  IF ~rendered.ok
        THEN Terminal(here, 500, "Template rendering failed: ", RenderError,
                      <<template_data>>)
        ELSE ValidateRendered(register, rendered.s, here, <<template_data>>)

\* A variant that goes on with null when the body is not JSON.
ParseIncoming_lenient(st, register, body, stages) ==
    LET request_data == FromStr(body) IN
    RenderTemplate(st, register,
                   IF request_data.ok THEN request_data.v ELSE Null,
                   Append(stages, "parse"))

\* main.rs 96-104: parse the body as JSON.
ParseIncoming(st, register, body, stages) ==
    LET request_data == FromStr(body)
        here == Append(stages, "parse")
    IN  IF ~request_data.ok
        THEN Terminal(here, 400, "Invalid JSON: ", SerdeError, <<>>)
        ELSE RenderTemplate(st, register, request_data.v, here)

\* A variant that parses the body before it looks the endpoint up.
FindRegister_parse_first(st, path, body) ==
    LET endpoint == <<"/">> \o path
        request_data == FromStr(body)
    IN  IF ~request_data.ok
        THEN Terminal(<<"parse">>, 400, "Invalid JSON: ", SerdeError, <<>>)
        ELSE IF endpoint \notin DOMAIN st.registers
        THEN Terminal(<<"parse", "lookup">>, 404, "Endpoint not found", NoArg, <<>>)
        ELSE RenderTemplate(st, st.registers[endpoint], request_data.v,
                            <<"parse", "lookup">>)

\* A variant that looks the wildcard capture up as it is, without the
\* leading slash.
FindRegister_no_slash(st, path, body) ==
    IF path \notin DOMAIN st.registers
    THEN Terminal(<<"lookup">>, 404, "Endpoint not found", NoArg, <<>>)
    ELSE ParseIncoming(st, st.registers[path], body, <<"lookup">>)

\* main.rs 77-94: the endpoint of the request and the registry lookup.
FindRegister(st, path, body) ==
    LET endpoint == <<"/">> \o path IN
    IF endpoint \notin DOMAIN st.registers
    THEN Terminal(<<"lookup">>, 404, "Endpoint not found", NoArg, <<>>)
    ELSE ParseIncoming(st, st.registers[endpoint], body, <<"lookup">>)

\* handle_webhook up to the first await: st is the AppState, path the
\* wildcard capture of the route, body the request body.
handle_webhook(st, path, body) == FindRegister(st, path, body)

\* handle_debug_request
handle_debug_request(body) ==
    Response(200, [status |-> "success", message |-> "Payload logged"])

\* health::health_check (the timestamp and the version are left out)
health_check == Response(200, [status |-> "healthy", service |-> "hermes-rs"])

\* health::readiness_check
readiness_check == Response(200, [status |-> "ready", checks |-> [config |-> "ok"]])

\* ------------------------------------------------------------------------
\* The router built by main: the handler a request is routed to.  A static
\* route takes precedence over the wildcard; the wildcard /*path needs a
\* non-empty capture; a route that does not accept the request's method
\* answers 405; no route answers 404.
\* ------------------------------------------------------------------------
DebugPath == <<"/", "d", "e", "b", "u", "g">>
HealthPath == <<"/", "h", "e", "a", "l", "t", "h">>
ReadyPath == <<"/", "r", "e", "a", "d", "y">>

\* A variant in which the wildcard, registered first, takes every path it
\* matches.
Route_wildcard_first(method, path, health_check_enabled) ==
    IF Len(path) >= 2 /\ path[1] = "/" THEN "handle_webhook" ELSE "not_found"

Route(method, path, health_check_enabled) ==
    IF path = DebugPath
    THEN (IF method = "POST" THEN "handle_debug_request" ELSE "method_not_allowed")
    ELSE IF health_check_enabled /\ path = HealthPath
    THEN (IF method = "GET" THEN "health_check" ELSE "method_not_allowed")
    ELSE IF health_check_enabled /\ path = ReadyPath
    THEN (IF method = "GET" THEN "readiness_check" ELSE "method_not_allowed")
    ELSE IF Len(path) >= 2 /\ path[1] = "/"
    THEN "handle_webhook"
    ELSE "not_found"

\* Path(path): the capture of /*path, the request path without its
\* leading slash.
PathCapture(path) == Tail(path)

\* ------------------------------------------------------------------------
\* The inputs of the model: template sources, request bodies, upstream
\* bodies, request paths and the deployments (a configuration file and the
\* command-line arguments) the server is started with.
\* ------------------------------------------------------------------------
T_a == <<"{", "{", "a", "}", "}">>
T_data == <<"{", "{", "d", "a", "t", "a", "}", "}">>
T_quoted == <<"\"", "{", "{", "a", "}", "}", "\"">>
T_raw == <<"{", "{", "{", "a", "}", "}", "}">>
T_helper == <<"{", "{", "h", " ", "a", "}", "}">>
T_unclosed == <<"{", "{", "a">>

B_a1 == <<"{", "\"", "a", "\"", ":", "1", "}">>
B_ax == <<"{", "\"", "a", "\"", ":", "\"", "x", "'", "\"", "}">>
B_7 == <<"7">>
B_no == <<"n", "o">>
B_empty == <<>>
Bodies == {B_a1, B_ax, B_7, B_no, B_empty}

Methods == {"GET", "POST"}

RootPath == <<"/">>
Path_a == <<"/", "a">>
Path_b == <<"/", "b">>
Paths == {RootPath, Path_a, Path_b, DebugPath, HealthPath, ReadyPath}

\* What the target can answer: a status line, then a body.
UpstreamStatuses == {200, 500}
U_json == <<"{", "\"", "k", "\"", ":", "1", "}">>
U_text == <<"o", "o", "p", "s">>
UpstreamTexts == {U_json, U_text}

Target(url, method) ==
    [url |-> url, method |-> method, headers |-> EmptyMap,
     timeout_seconds |-> None]

Register(endpoint, target, template) ==
    [endpoint |-> endpoint, method |-> POST, target |-> target,
     template |-> template, retry_config |-> None]

SomeHeaders == MapInsert(EmptyMap, <<"x">>, <<"1">>)

RetryThrice == Some([attempts |-> 3, delay_ms |-> 10, backoff_multiplier |-> 2])

Args(health) == [health_check_enabled |-> health, request_timeout |-> 30]

Deployment1 ==
    [args |-> Args(FALSE),
     config |->
       [registers |->
          << [Register(Path_a,
                       [Target("http://t1", <<"p", "o", "s", "t">>)
                          EXCEPT !.headers = SomeHeaders],
                       T_a)
                EXCEPT !.retry_config = RetryThrice],
             Register(HealthPath,
                      [Target("http://t2", <<"p", "a", "t", "c", "h">>)
                         EXCEPT !.timeout_seconds = Some(5)],
                      T_data),
             Register(Path_b, Target("http://t15", <<"T", "r", "a", "c", "e">>),
                      T_a) >>,
        settings |-> DefaultSettings]]

Deployment2 ==
    [args |-> Args(TRUE),
     config |->
       [registers |->
          << Register(RootPath, Target("http://t3", GET), T_a),
             Register(DebugPath, Target("http://t4", GET), T_a),
             Register(HealthPath, Target("http://t5", GET), T_a),
             Register(<<"a">>, Target("http://t6", GET), T_a),
             Register(Path_a, Target("http://t7", <<"D", "e", "l", "e", "t", "e">>),
                      T_quoted),
             Register(Path_b, Target("http://t8", <<"T", "R", "A", "C", "E">>), T_a) >>,
        settings |-> DefaultSettings]]

Deployment3 ==
    [args |-> Args(FALSE),
     config |->
       [registers |->
          << Register(Path_a, Target("http://t9", <<"T", "R", "A", "C", "E">>),
                      T_helper),
             Register(Path_a, Target("http://t10", GET), T_raw),
             [Register(Path_b, Target("http://t11", <<"g", "e", "t">>), T_helper)
                EXCEPT !.method = <<"g", "e", "t">>],
             Register(HealthPath, Target("http://t12", <<"P", "u", "t">>),
                      T_quoted) >>,
        settings |-> [DefaultSettings EXCEPT !.retry_attempts = 5]]]

Deployment4 ==
    [args |-> Args(TRUE),
     config |->
       [registers |->
          << Register(Path_a, Target("http://t13", POST), T_a),
             Register(Path_b, Target("http://t14", POST), T_unclosed) >>,
        settings |-> DefaultSettings]]

Deployments == {Deployment1, Deployment2, Deployment3, Deployment4}

\* ------------------------------------------------------------------------
\* State
\* ------------------------------------------------------------------------
VARIABLES
    config,     \* the loaded Config
    args,       \* the parsed Args
    server,     \* "serving", "draining" after a shutdown signal, "stopped",
                \* or "panicked" when AppState::new panicked
    state,      \* the AppState: registers and handlebars
    reqs,       \* the request tasks, one per slot
    sample,     \* a call of json_to_template_data: its argument and result
    admin       \* a run of hermes-admin: its command, arguments and result

vars == <<config, args, server, state, reqs, sample, admin>>

Slots == 1..MaxInFlight

NoUpstream == [status |-> 0, text |-> <<>>, read |-> FALSE]

NoSample == [value |-> Null, result |-> <<>>]

NoAdmin == [cmd |-> "none", endpoint |-> <<>>, payload |-> <<>>,
            ok |-> FALSE, error |-> ""]

\* A free slot.
Idle ==
    [pc |-> "idle", method |-> "", path |-> <<>>, body |-> <<>>,
     handler |-> "", stages |-> <<>>, out |-> <<>>, up |-> NoUpstream,
     resp |-> NoResponse, template_data |-> <<>>, call |-> "none"]

\* main, from Config::load to serve: the state of a started server.
Init ==
    \E d \in Deployments :
        LET built == AppStateNew(d.config) IN
        /\ config = d.config
        /\ args = d.args
        /\ server = IF built.ok THEN "serving" ELSE "panicked"
        /\ state = [registers |-> built.registers, handlebars |-> built.handlebars]
        /\ reqs = [i \in Slots |-> Idle]
        /\ sample = NoSample
        /\ admin = NoAdmin

Static == UNCHANGED <<config, args, server, state, sample, admin>>

\* A variant that goes on accepting requests after the shutdown signal.
Receive_while_draining(i, method, path, body) ==
    /\ server \in {"serving", "draining"}
    /\ reqs[i].pc = "idle"
    /\ \A j \in DOMAIN reqs : j < i => reqs[j].pc # "idle"
    /\ reqs' = [reqs EXCEPT ![i] =
                  [Idle EXCEPT !.pc = "received", !.method = method,
                               !.path = path, !.body = body]]
    /\ Static

\* A request arrives and a task is spawned for it, in the first free slot.
Receive(i, method, path, body) ==
    /\ server = "serving"
    /\ reqs[i].pc = "idle"
    /\ \A j \in DOMAIN reqs : j < i => reqs[j].pc # "idle"
    /\ reqs' = [reqs EXCEPT ![i] =
                  [Idle EXCEPT !.pc = "received", !.method = method,
                               !.path = path, !.body = body]]
    /\ Static

\* A request that has arrived is served, also after the shutdown signal.
Routed(i, handler) ==
    /\ server \in {"serving", "draining"}
    /\ reqs[i].pc = "received"
    /\ Route(reqs[i].method, reqs[i].path, args.health_check_enabled) = handler

Finish(i, handler, resp) ==
    reqs' = [reqs EXCEPT ![i].pc = "done", ![i].handler = handler, ![i].resp = resp]

\* The request of slot i after the synchronous part r of its handler.
AfterHandler(i, r) ==
    [reqs EXCEPT ![i].pc = IF r.done THEN "done" ELSE "sending",
                 ![i].handler = "handle_webhook",
                 ![i].stages = r.stages,
                 ![i].out = r.out,
                 ![i].resp = r.resp,
                 ![i].template_data = r.template_data,
                 ![i].call = IF r.done THEN "none" ELSE "pending"]

\* A variant that reads the body from a buffer shared by the tasks, which
\* holds the body of the first request that waits for its handler.
DispatchWebhook_shared_body(i) ==
    /\ Routed(i, "handle_webhook")
    /\ LET first == CHOOSE j \in DOMAIN reqs :
                        /\ reqs[j].pc = "received"
                        /\ \A k \in DOMAIN reqs : k < j => reqs[k].pc # "received"
       IN  reqs' = AfterHandler(i, handle_webhook(state, PathCapture(reqs[i].path),
                                                  reqs[first].body))
    /\ Static

\* A variant that removes a rule from the registry when a request to it
\* fails in the handler.
DispatchWebhook_drops_rule(i) ==
    /\ Routed(i, "handle_webhook")
    /\ LET r == handle_webhook(state, PathCapture(reqs[i].path), reqs[i].body) IN
       /\ reqs' = AfterHandler(i, r)
       /\ state' = IF r.done /\ r.resp.status # 404
                    THEN [state EXCEPT !.registers =
                            [e \in DOMAIN state.registers \ {reqs[i].path} |->
                                state.registers[e]]]
                    ELSE state
    /\ UNCHANGED <<config, args, server, sample, admin>>

\* A variant that answers 405 when the method of the request is not the
\* method the rule declares.
DispatchWebhook_method_filter(i) ==
    /\ Routed(i, "handle_webhook")
    /\ LET r == handle_webhook(state, PathCapture(reqs[i].path), reqs[i].body) IN
       IF /\ reqs[i].path \in DOMAIN state.registers
          /\ ToUppercase(state.registers[reqs[i].path].method)
                # VerbText(reqs[i].method)
       THEN reqs' = [reqs EXCEPT ![i].pc = "done",
                                 ![i].handler = "handle_webhook",
                                 ![i].stages = <<"lookup">>,
                                 ![i].resp = Response(405, NoBody)]
       ELSE reqs' = AfterHandler(i, r)
    /\ Static

\* The router runs handle_webhook up to the send, or to an error response.
DispatchWebhook(i) ==
    /\ Routed(i, "handle_webhook")
    /\ reqs' = AfterHandler(i, handle_webhook(state, PathCapture(reqs[i].path),
                                               reqs[i].body))
    /\ Static

DispatchDebug(i) ==
    /\ Routed(i, "handle_debug_request")
    /\ Finish(i, "handle_debug_request", handle_debug_request(reqs[i].body))
    /\ Static

DispatchHealth(i) ==
    /\ Routed(i, "health_check")
    /\ Finish(i, "health_check", health_check)
    /\ Static

DispatchReady(i) ==
    /\ Routed(i, "readiness_check")
    /\ Finish(i, "readiness_check", readiness_check)
    /\ Static

\* No route, or no handler for the method: the router answers itself.
RouterReject(i) ==
    /\ \/ /\ Routed(i, "not_found")
          /\ Finish(i, "not_found", Response(404, NoBody))
       \/ /\ Routed(i, "method_not_allowed")
          /\ Finish(i, "method_not_allowed", Response(405, NoBody))
    /\ Static

\* send().await returns a response: its status line has arrived.
SendOk(i, status) ==
    /\ reqs[i].pc = "sending"
    /\ reqs' = [reqs EXCEPT ![i].pc = "reading",
                            ![i].call = "responded",
                            ![i].up = [NoUpstream EXCEPT !.status = status]]
    /\ Static

\* A variant that sends again while the rule's retry_config allows it.
SendFail_retries(i) ==
    /\ reqs[i].pc = "sending"
    /\ LET register == state.registers[reqs[i].path] IN
       IF register.retry_config.some
          /\ Len(reqs[i].out) < register.retry_config.v.attempts
       THEN reqs' = [reqs EXCEPT ![i].out = Append(@, @[1])]
       ELSE reqs' = [reqs EXCEPT ![i].pc = "done",
                       ![i].resp = Response(500,
                           ErrorResponse("Failed to send request to target: ",
                                         ReqwestError))]
    /\ Static

\* send().await fails (connect error, timeout): main.rs 155-162.
SendFail(i) ==
    /\ reqs[i].pc = "sending"
    /\ reqs' = [reqs EXCEPT ![i].pc = "done",
                  ![i].call = "failed",
                  ![i].resp = Response(500,
                      ErrorResponse("Failed to send request to target: ",
                                    ReqwestError))]
    /\ Static

\* A variant that turns an error status of the target into an error.
SuccessEnvelope_error_for_status(response) ==
    LET parsed == FromStr(response.text)
        response_json == IF parsed.ok THEN parsed.v ELSE Str(response.text)
    IN  IF response.status >= 400
        THEN Response(500, ErrorResponse("Failed to send request to target: ",
                                         ReqwestError))
        ELSE Response(200, [status |-> "success",
                            target_response |-> response_json])

\* main.rs 174-181: the envelope around the body of the target's response
\* (its status and its text).
SuccessEnvelope(response) ==
    LET parsed == FromStr(response.text)
        response_json == IF parsed.ok THEN parsed.v ELSE Str(response.text)
    IN  Response(200, [status |-> "success", target_response |-> response_json])

\* text().await returns the body: main.rs 164-181.
TextOk(i, text) ==
    /\ reqs[i].pc = "reading"
    /\ reqs' = [reqs EXCEPT ![i].pc = "done",
                            ![i].stages = Append(@, "read"),
                            ![i].call = "completed",
                            ![i].up = [@ EXCEPT !.text = text, !.read = TRUE],
                            ![i].resp = SuccessEnvelope(
                                [reqs[i].up EXCEPT !.text = text, !.read = TRUE])]
    /\ Static

\* A variant that sends the request again when the body cannot be read.
TextFail_resends(i) ==
    /\ reqs[i].pc = "reading"
    /\ reqs' = [reqs EXCEPT ![i].pc = "sending",
                            ![i].call = "pending",
                            ![i].up = NoUpstream]
    /\ Static

\* text().await fails: main.rs 165-172.
TextFail(i) ==
    /\ reqs[i].pc = "reading"
    /\ reqs' = [reqs EXCEPT ![i].pc = "done",
                  ![i].call = "failed",
                  ![i].stages = Append(@, "read"),
                  ![i].resp = Response(500,
                      ErrorResponse("Failed to read response: ", ReqwestError))]
    /\ Static

\* The response is written to the caller and the task ends.
Complete(i) ==
    /\ reqs[i].pc = "done"
    /\ reqs' = [reqs EXCEPT ![i] = Idle]
    /\ Static

\* The caller drops the connection while the handler waits at an await of
\* main.rs 150-172: the runtime drops the task, and with it the future of
\* the outbound call that the handler awaits in line.
Cancel(i) ==
    /\ reqs[i].pc \in {"sending", "reading"}
    /\ reqs' = [reqs EXCEPT ![i].pc = "cancelled", ![i].call = "dropped"]
    /\ Static

\* The slot of a dropped task is free again.
Reap(i) ==
    /\ reqs[i].pc = "cancelled"
    /\ reqs' = [reqs EXCEPT ![i] = Idle]
    /\ Static

\* shutdown_signal resolves, on Ctrl+C or SIGTERM: serve stops accepting.
ShutdownSignal ==
    /\ server = "serving"
    /\ server' = "draining"
    /\ UNCHANGED <<config, args, state, reqs, sample, admin>>

\* serve returns when no request is in flight any more, and main with it.
ServeReturns ==
    /\ server = "draining"
    /\ \A i \in DOMAIN reqs : reqs[i].pc = "idle"
    /\ server' = "stopped"
    /\ UNCHANGED <<config, args, state, reqs, sample, admin>>

Next ==
    \/ \E i \in Slots :
          \/ \E m \in Methods, p \in Paths, b \in Bodies : Receive(i, m, p, b)
          \/ DispatchWebhook(i)
          \/ DispatchDebug(i)
          \/ DispatchHealth(i)
          \/ DispatchReady(i)
          \/ RouterReject(i)
          \/ \E s \in UpstreamStatuses : SendOk(i, s)
          \/ SendFail(i)
          \/ \E t \in UpstreamTexts : TextOk(i, t)
          \/ TextFail(i)
          \/ Complete(i)
          \/ Cancel(i)
          \/ Reap(i)
    \/ ShutdownSignal
    \/ ServeReturns

Spec == Init /\ [][Next]_vars

\* The server under the scheduling of the runtime and the timeout of the
\* HTTP client (main.rs 57-61): a request that has arrived gets its handler,
\* send().await resolves with a response or an error, and so does
\* text().await. The caller dropping the connection, the shutdown signal
\* and the arrival of requests are not forced.
\* The step DispatchWebhook, with the outcome of the handler read from a
\* table of its outcomes for every deployment, path and body.
WebhookOutcomes ==
    [d \in Deployments |->
        LET built == AppStateNew(d.config)
            st == [registers |-> built.registers, handlebars |-> built.handlebars]
        IN  [p \in Paths |->
                [b \in Bodies |-> handle_webhook(st, PathCapture(p), b)]]]

DispatchWebhookTabled(i) ==
    /\ Routed(i, "handle_webhook")
    /\ \E d \in Deployments :
          /\ d.config = config
          /\ reqs' = AfterHandler(i, WebhookOutcomes[d][reqs[i].path][reqs[i].body])
    /\ Static

Handled(i) ==
    \/ DispatchWebhookTabled(i)
    \/ DispatchDebug(i)
    \/ DispatchHealth(i)
    \/ DispatchReady(i)
    \/ RouterReject(i)
SendResolves(i) == (\E s \in UpstreamStatuses : SendOk(i, s)) \/ SendFail(i)
TextResolves(i) == (\E t \in UpstreamTexts : TextOk(i, t)) \/ TextFail(i)

Fairness ==
    \A i \in Slots :
        /\ WF_vars(Handled(i))
        /\ WF_vars(SendResolves(i))
        /\ WF_vars(TextResolves(i))
        /\ WF_vars(Complete(i))

SpecLive == Init /\ [][Next]_vars /\ Fairness

\* ------------------------------------------------------------------------
\* Concurrent requests: one task more than in Spec, over a webhook path
\* and the paths "/debug" and "/health" of the static routes.
\* ------------------------------------------------------------------------
ConcurrentSlots == 1..(MaxInFlight + 1)
ConcurrentPaths == {Path_a, DebugPath, HealthPath}
ConcurrentBodies == {B_a1, B_no}

InitConcurrent ==
    \E d \in Deployments :
        LET built == AppStateNew(d.config) IN
        /\ config = d.config
        /\ args = d.args
        /\ server = IF built.ok THEN "serving" ELSE "panicked"
        /\ state = [registers |-> built.registers, handlebars |-> built.handlebars]
        /\ reqs = [i \in ConcurrentSlots |-> Idle]
        /\ sample = NoSample
        /\ admin = NoAdmin

NextConcurrent ==
    \E i \in ConcurrentSlots :
        \/ \E m \in Methods, p \in ConcurrentPaths, b \in ConcurrentBodies :
              Receive(i, m, p, b)
        \/ DispatchWebhook(i)
        \/ DispatchDebug(i)
        \/ DispatchHealth(i)
        \/ RouterReject(i)
        \/ SendOk(i, 200)
        \/ SendFail(i)
        \/ TextOk(i, U_json)
        \/ TextFail(i)
        \/ Complete(i)
        \/ Cancel(i)
        \/ Reap(i)

SpecConcurrent == InitConcurrent /\ [][NextConcurrent]_vars

\* ------------------------------------------------------------------------
\* hermes-admin (admin.rs), run once on the configuration of a server that
\* serves webhook requests.
\* ------------------------------------------------------------------------
AdminOk == [ok |-> TRUE, error |-> ""]
AdminErr(error) == [ok |-> FALSE, error |-> error]

\* validate_config, admin.rs 58-88, from the register at position index on.
RECURSIVE ValidateRegisters(_, _)
ValidateRegisters(regs, index) ==
    IF index >= Len(regs) THEN AdminOk
    ELSE LET register == regs[index + 1]
             valid_methods == {GET, POST, PUT, DELETE, PATCH}
         IN  IF ~(register.endpoint # <<>> /\ Head(register.endpoint) = "/")
             THEN AdminErr("endpoint must start with '/'")
             ELSE IF ToUppercase(register.method) \notin valid_methods
             THEN AdminErr("invalid HTTP method")
             ELSE IF register.target.url = ""
             THEN AdminErr("target URL cannot be empty")
             ELSE IF ~Compile(register.template).ok
             THEN AdminErr("template error")
             ELSE ValidateRegisters(regs, index + 1)

validate_config(cfg) == ValidateRegisters(cfg.registers, 0)

\* iter().find(|r| r.endpoint == endpoint), admin.rs 98-100: the position
\* of the first register of the endpoint, 0 if there is none.
FindFirst(regs, endpoint) ==
    LET found == {k \in 1..Len(regs) : regs[k].endpoint = endpoint} IN
    IF found = {} THEN 0
    ELSE CHOOSE k \in found : \A j \in found : k <= j

\* test_template, admin.rs 90-121.
test_template(cfg, endpoint, payload) ==
    LET found == FindFirst(cfg.registers, endpoint) IN
    IF found = 0 THEN AdminErr("Endpoint not found")
    ELSE LET register == cfg.registers[found]
             payload_json == FromStr(payload)
         IN  IF ~payload_json.ok THEN AdminErr("payload")
             ELSE LET template_data == json_to_template_data(payload_json.v)
                      compiled == Compile(register.template)
                  IN  IF ~compiled.ok THEN AdminErr("template")
                      ELSE LET rendered == RenderElems(compiled.elems, template_data)
                           IN  IF ~rendered.ok THEN AdminErr("render")
                               ELSE IF ~FromStr(rendered.s).ok
                               THEN AdminErr("rendered output")
                               ELSE AdminOk

AdminEndpoints == Paths \cup {<<"a">>}

\* run_admin_command, admin.rs 42-56.
ValidateConfig ==
    /\ admin.cmd = "none"
    /\ admin' = [cmd |-> "validate-config", endpoint |-> <<>>, payload |-> <<>>]
                @@ validate_config(config)
    /\ UNCHANGED <<config, args, server, state, reqs, sample>>

TestTemplate(endpoint, payload) ==
    /\ admin.cmd = "none"
    /\ admin' = [cmd |-> "test-template", endpoint |-> endpoint,
                 payload |-> payload]
                @@ test_template(config, endpoint, payload)
    /\ UNCHANGED <<config, args, server, state, reqs, sample>>

NextAdmin ==
    \/ ValidateConfig
    \/ \E e \in AdminEndpoints, p \in Bodies : TestTemplate(e, p)
    \/ \E i \in Slots :
          \/ \E p \in Paths, b \in Bodies : Receive(i, "POST", p, b)
          \/ DispatchWebhook(i)

SpecAdmin == Init /\ [][NextAdmin]_vars

\* ------------------------------------------------------------------------
\* json_to_template_data applied to a value, as its callers and its unit
\* test apply it: a specification of its own, over a set of JSON values.
\* ------------------------------------------------------------------------
Scalars == {Null, Bool(TRUE), Bool(FALSE), Num(0), Num(42), Str(<<>>), Str(<<"x">>)}
Arrays ==
    {Arr(<<>>)} \cup {Arr(<<x>>) : x \in Scalars}
                \cup {Arr(<<x, y>>) : x \in Scalars, y \in Scalars}
Members == Scalars \cup {Arr(<<Num(1)>>), Obj(EmptyMap)}
SampleKeys == {<<"a">>, DataKey}
Objects == UNION {{Obj(m) : m \in [K -> Members]} : K \in SUBSET SampleKeys}
Values == Scalars \cup Arrays \cup Objects

InitData ==
    /\ config = Deployment1.config
    /\ args = Deployment1.args
    /\ server = "not_started"
    /\ state = [registers |-> EmptyMap, handlebars |-> EmptyMap]
    /\ reqs = [i \in Slots |-> Idle]
    /\ \E v \in Values : sample = [value |-> v, result |-> <<>>]
    /\ admin = NoAdmin

CallJsonToTemplateData ==
    /\ sample.result = <<>>
    /\ sample' = [sample EXCEPT !.result = <<json_to_template_data(sample.value)>>]
    /\ UNCHANGED <<config, args, server, state, reqs, admin>>

NextData == CallJsonToTemplateData

SpecData == InitData /\ [][NextData]_vars

\* ------------------------------------------------------------------------
\* Vocabulary of the properties
\* ------------------------------------------------------------------------
StageOrder == <<"lookup", "parse", "render", "validate", "method", "send", "read">>
FirstStages(n) == SubSeq(StageOrder, 1, n)
IsPrefix(a, b) == Len(a) <= Len(b) /\ \A k \in 1..Len(a) : a[k] = b[k]
Ran(r, stage) == \E k \in 1..Len(r.stages) : r.stages[k] = stage

\* The request of slot i has been dispatched.
Active(i) == reqs[i].pc \notin {"idle", "received"}
InWebhook(i) == reqs[i].handler = "handle_webhook"

\* What a request meets at each stage, stated on the request itself.
Registered(r) == r.path \in DOMAIN state.registers
Rule(r) == state.registers[r.path]
BodyParses(r) == FromStr(r.body).ok
RenderOf(r) ==
    Render(state.handlebars, Rule(r).template,
           json_to_template_data(FromStr(r.body).v))
RenderedParses(r) == FromStr(RenderOf(r).s).ok
MethodSupported(r) == ToUppercase(Rule(r).target.method) \in SupportedMethods

\* The position in StageOrder of the first stage that fails before the
\* send; 0 if none does.
FailedStage(r) ==
    IF ~Registered(r) THEN 1
    ELSE IF ~BodyParses(r) THEN 2
    ELSE IF ~RenderOf(r).ok THEN 3
    ELSE IF ~RenderedParses(r) THEN 4
    ELSE IF ~MethodSupported(r) THEN 5
    ELSE 0

StageStatus(f) == CASE f = 1 -> 404 [] f = 2 -> 400 [] OTHER -> 500
StageMessage(f) ==
    CASE f = 1 -> "Endpoint not found"
      [] f = 2 -> "Invalid JSON: "
      [] f = 3 -> "Template rendering failed: "
      [] f = 4 -> "Rendered template is not valid JSON: "
      [] f = 5 -> "Unsupported HTTP method: "

IsError(resp) == "error" \in DOMAIN resp.body
EndpointNotFound == Response(404, ErrorResponse("Endpoint not found", NoArg))

\* The paths the router hands to handle_webhook.
ReachesDispatch(path) ==
    /\ path \notin {RootPath, DebugPath}
    /\ ~(args.health_check_enabled /\ path \in {HealthPath, ReadyPath})

PcRank(pc) ==
    CASE pc = "idle" -> 0 [] pc = "received" -> 1 [] pc = "sending" -> 2
      [] pc = "reading" -> 3 [] pc = "done" -> 4 [] pc = "cancelled" -> 4

\* ------------------------------------------------------------------------
\* Properties
\* ------------------------------------------------------------------------
C1_StateOk(i) ==
    LET r == reqs[i]
        f == FailedStage(r)
    IN  /\ IsPrefix(r.stages, StageOrder)
        /\ f # 0 =>
              /\ r.pc = "done"
              /\ r.stages = FirstStages(f)
              /\ IsError(r.resp)
              /\ r.resp.status = StageStatus(f)
              /\ r.resp.body.error.msg = StageMessage(f)
              /\ r.out = <<>>
        /\ f = 0 =>
              /\ r.pc \in {"sending", "reading"} => r.stages = FirstStages(6)
              /\ r.pc = "done" =>
                    \/ /\ r.stages = FirstStages(6)
                       /\ IsError(r.resp)
                       /\ r.resp.body.error.msg = "Failed to send request to target: "
                    \/ /\ r.stages = FirstStages(7)
                       /\ \/ r.resp.status = 200
                          \/ /\ IsError(r.resp)
                             /\ r.resp.body.error.msg = "Failed to read response: "

C1_StepOk(i) ==
    reqs'[i].pc # "idle" =>
        /\ IsPrefix(reqs[i].stages, reqs'[i].stages)
        /\ PcRank(reqs[i].pc) <= PcRank(reqs'[i].pc)

\* C1: a request handled by handle_webhook runs the stages lookup, parse,
\* render, validate, method, send, read in that order; its response is the
\* error of the first stage that fails and no later stage runs; the stages
\* a request has run only ever grow.
C1_StagesInOrder ==
    /\ [](\A i \in Slots : InWebhook(i) => C1_StateOk(i))
    /\ [][\A i \in Slots : C1_StepOk(i)]_vars

\* A malformed body sent to a rule whose target method is unsupported has
\* been answered 400.
C1_Witness ==
    \E i \in Slots :
        /\ reqs[i].pc = "done" /\ InWebhook(i)
        /\ Registered(reqs[i]) /\ ~BodyParses(reqs[i])
        /\ ~MethodSupported(reqs[i])
        /\ reqs[i].resp.status = 400

\* C2 as stated: a request to a path that is not a key of the registry is
\* answered 404 {"error":"Endpoint not found"}, whatever the path and the
\* body, without rendering and without an outbound request.
C2_AnyUnregisteredPath404 ==
    \A i \in Slots :
        (reqs[i].pc = "done" /\ ~Registered(reqs[i])) =>
            /\ reqs[i].resp = EndpointNotFound
            /\ ~Ran(reqs[i], "render")
            /\ reqs[i].out = <<>>

\* C2, amended: a request to a path that is not a key of the registry
\* renders no template and issues no outbound request; when the router
\* hands the path to handle_webhook (it is not "/", not "/debug" and, with
\* health checks enabled, not "/health" or "/ready") the answer is 404
\* {"error":"Endpoint not found"} whatever the body; the root path "/" is
\* answered 404 by the router, without that body.
C2_UnregisteredPath ==
    \A i \in Slots :
        (Active(i) /\ ~Registered(reqs[i])) =>
            /\ reqs[i].pc = "done"
            /\ ~Ran(reqs[i], "render")
            /\ reqs[i].template_data = <<>>
            /\ reqs[i].out = <<>>
            /\ ReachesDispatch(reqs[i].path) => reqs[i].resp = EndpointNotFound
            /\ reqs[i].path = RootPath => reqs[i].resp = Response(404, NoBody)

\* A request with a body that is not JSON, to an unregistered path, has
\* been answered by handle_webhook.
C2_Witness ==
    \E i \in Slots :
        /\ reqs[i].pc = "done" /\ InWebhook(i)
        /\ ~Registered(reqs[i]) /\ ~BodyParses(reqs[i])
        /\ reqs[i].resp = EndpointNotFound

\* C3 as stated: every answered request to a registered endpoint, whatever
\* the endpoint, with a body that does not parse as JSON has 400 with an
\* error body, no rendering and no outbound request.
C3_AnyRegisteredMalformed400 ==
    \A i \in Slots :
        (Active(i) /\ Registered(reqs[i]) /\ ~BodyParses(reqs[i])) =>
            /\ reqs[i].pc = "done"
            /\ reqs[i].resp.status = 400
            /\ IsError(reqs[i].resp)
            /\ ~Ran(reqs[i], "render")
            /\ reqs[i].template_data = <<>>
            /\ reqs[i].out = <<>>

\* C3: a request that handle_webhook receives for a registered endpoint
\* with a body that does not parse as JSON is answered 400 with an error
\* body; the renderer is not invoked and no outbound request is issued.
\* A request to an endpoint registered at a path that the router does not
\* hand to handle_webhook is answered by the router or by the static
\* route, not with 400; it is not rendered and not forwarded either.
C3_MalformedBody400 ==
    \A i \in Slots :
        /\ (InWebhook(i) /\ Registered(reqs[i]) /\ ~BodyParses(reqs[i])) =>
              /\ reqs[i].pc = "done"
              /\ reqs[i].resp.status = 400
              /\ IsError(reqs[i].resp)
              /\ reqs[i].resp.body.error.msg = "Invalid JSON: "
              /\ ~Ran(reqs[i], "render")
              /\ reqs[i].template_data = <<>>
              /\ reqs[i].out = <<>>
        /\ (Active(i) /\ ~InWebhook(i)
                /\ Registered(reqs[i]) /\ ~BodyParses(reqs[i])) =>
              /\ ~ReachesDispatch(reqs[i].path)
              /\ reqs[i].pc = "done"
              /\ reqs[i].resp.status \in {200, 404, 405}
              /\ ~IsError(reqs[i].resp)
              /\ reqs[i].stages = <<>>
              /\ reqs[i].template_data = <<>>
              /\ reqs[i].out = <<>>

\* The body "no" sent to a registered endpoint has been answered.
C3_Witness ==
    \E i \in Slots :
        /\ reqs[i].pc = "done" /\ InWebhook(i)
        /\ Registered(reqs[i]) /\ reqs[i].body = B_no
        /\ reqs[i].resp.status = 400

\* The case of C4: the path is a registered endpoint, the body is a JSON
\* object and the rule's template renders it to well-formed JSON.
C4_Case(r) ==
    /\ Registered(r)
    /\ BodyParses(r) /\ FromStr(r.body).v.t = "obj"
    /\ RenderOf(r).ok /\ RenderedParses(r)

C4_Forwarded(r) ==
    /\ Ran(r, "lookup") /\ Ran(r, "method")
    /\ MethodSupported(r) =>
          /\ Len(r.out) = 1
          /\ r.out[1].url = Rule(r).target.url

\* C4 as stated: for every registered endpoint E, whatever string it is,
\* a request to E in the case of C4 reaches the forwarding stage.
C4_EveryEndpointForwards ==
    \A i \in Slots :
        (Active(i) /\ C4_Case(reqs[i])) => C4_Forwarded(reqs[i])

\* C4, amended: for a registered rule whose endpoint E the router hands to
\* handle_webhook (E starts with "/" and is longer than "/", is not
\* "/debug" and, with health checks enabled, not "/health" or "/ready"), a
\* request to E in the case of C4 reaches the forwarding stage.
C4_RoutedEndpointForwards ==
    \A i \in Slots :
        (Active(i) /\ C4_Case(reqs[i]) /\ ReachesDispatch(reqs[i].path)) =>
            C4_Forwarded(reqs[i])

\* With health checks disabled, a request to the registered endpoint
\* "/health" has been forwarded.
C4_Witness ==
    \E i \in Slots :
        /\ Active(i) /\ C4_Case(reqs[i])
        /\ reqs[i].path = HealthPath
        /\ Len(reqs[i].out) = 1

\* C5: a template that renders to something that is not JSON ends the
\* request with 500 "Rendered template is not valid JSON", a render
\* failure with 500 "Template rendering failed"; neither issues an
\* outbound request.
C5_RenderedNotJson500 ==
    \A i \in Slots :
        (InWebhook(i) /\ Registered(reqs[i]) /\ BodyParses(reqs[i])) =>
            /\ ~RenderOf(reqs[i]).ok =>
                  /\ reqs[i].pc = "done"
                  /\ reqs[i].resp =
                       Response(500, ErrorResponse("Template rendering failed: ",
                                                   RenderError))
                  /\ reqs[i].out = <<>>
            /\ (RenderOf(reqs[i]).ok /\ ~RenderedParses(reqs[i])) =>
                  /\ reqs[i].pc = "done"
                  /\ reqs[i].resp =
                       Response(500,
                           ErrorResponse("Rendered template is not valid JSON: ",
                                         SerdeError))
                  /\ reqs[i].out = <<>>

\* A template has rendered a JSON body to a text that is not JSON.
C5_Witness ==
    \E i \in Slots :
        /\ reqs[i].pc = "done" /\ InWebhook(i)
        /\ Registered(reqs[i]) /\ BodyParses(reqs[i])
        /\ RenderOf(reqs[i]).ok /\ RenderOf(reqs[i]).s # <<>>
        /\ ~RenderedParses(reqs[i])
        /\ reqs[i].resp.status = 500

\* C6: once the rendered payload is validated, a target method that is,
\* in upper case, one of GET, POST, PUT, DELETE, PATCH sends one request
\* with the verb of that name; any other value ends the request with 500
\* "Unsupported HTTP method" and no outbound request.
C6_MethodMapping ==
    \A i \in Slots :
        (InWebhook(i) /\ FailedStage(reqs[i]) \in {0, 5}) =>
            LET method == ToUppercase(Rule(reqs[i]).target.method) IN
            /\ method \in {GET, POST, PUT, DELETE, PATCH} =>
                  /\ Len(reqs[i].out) = 1
                  /\ VerbText(reqs[i].out[1].verb) = method
            /\ method \notin {GET, POST, PUT, DELETE, PATCH} =>
                  /\ reqs[i].pc = "done"
                  /\ reqs[i].resp =
                       Response(500, ErrorResponse("Unsupported HTTP method: ",
                                                   method))
                  /\ reqs[i].out = <<>>

\* A request has been sent for a rule whose target method is not written
\* in upper case.
C6_Witness ==
    \E i \in Slots :
        /\ InWebhook(i) /\ Len(reqs[i].out) = 1
        /\ Rule(reqs[i]).target.method # ToUppercase(Rule(reqs[i]).target.method)
        /\ VerbText(reqs[i].out[1].verb) = ToUppercase(Rule(reqs[i]).target.method)

\* C7: when the body of the target's response has been read, whatever the
\* status of that response, the caller gets 200 with status "success" and
\* target_response the parsed body, or the body text as a JSON string when
\* it is not JSON.
C7_AnyUpstreamStatusIsSuccess ==
    \A i \in Slots :
        reqs[i].up.read =>
            LET parsed == FromStr(reqs[i].up.text) IN
            /\ reqs[i].pc = "done"
            /\ reqs[i].resp.status = 200
            /\ DOMAIN reqs[i].resp.body = {"status", "target_response"}
            /\ reqs[i].resp.body.status = "success"
            /\ parsed.ok => reqs[i].resp.body.target_response = parsed.v
            /\ ~parsed.ok =>
                  reqs[i].resp.body.target_response = Str(reqs[i].up.text)

\* The target answered 500 with a body that is not JSON and the caller got
\* 200 with that text.
C7_Witness ==
    \E i \in Slots :
        /\ reqs[i].up.read /\ reqs[i].up.status = 500
        /\ reqs[i].up.text = U_text
        /\ reqs[i].resp.status = 200
        /\ reqs[i].resp.body.target_response = Str(U_text)

\* C8 as stated: a request issues at most one outbound request and every
\* error response, whoever gives it, is a JSON object with an error field.
C8_EveryErrorHasErrorField ==
    \A i \in Slots :
        /\ Len(reqs[i].out) <= 1
        /\ (reqs[i].pc = "done" /\ reqs[i].resp.status >= 400) =>
              IsError(reqs[i].resp)

\* C8: a request issues at most one outbound request, and every error
\* response of handle_webhook is a JSON object with an error field: a
\* failed send is answered, not sent again, whatever retry_config and
\* settings.retry_attempts are. The other error responses are the 404 and
\* the 405 of the router itself, which have no body and no outbound
\* request.
C8_AtMostOneOutbound ==
    \A i \in Slots :
        /\ Len(reqs[i].out) <= 1
        /\ (InWebhook(i) /\ reqs[i].pc = "done" /\ reqs[i].resp.status # 200) =>
              /\ IsError(reqs[i].resp)
              /\ reqs[i].resp.status \in {400, 404, 500}
        /\ (~InWebhook(i) /\ reqs[i].pc = "done" /\ reqs[i].resp.status # 200) =>
              /\ reqs[i].handler \in {"not_found", "method_not_allowed"}
              /\ reqs[i].resp =
                    Response(IF reqs[i].handler = "not_found" THEN 404 ELSE 405,
                             NoBody)
              /\ reqs[i].out = <<>>

\* The send failed for a rule that declares a retry_config, and the caller
\* has its error.
C8_Witness ==
    \E i \in Slots :
        /\ reqs[i].pc = "done" /\ InWebhook(i)
        /\ Len(reqs[i].out) = 1
        /\ Rule(reqs[i]).retry_config.some
        /\ config.settings.retry_attempts > 0
        /\ IsError(reqs[i].resp)
        /\ reqs[i].resp.body.error.msg = "Failed to send request to target: "

\* C9: POST /debug is answered 200 {"status":"success","message":"Payload
\* logged"} whatever the body, with no registry lookup and no outbound
\* request, also when a rule is registered for "/debug".
C9_DebugAlwaysLogs ==
    \A i \in Slots :
        (Active(i) /\ reqs[i].method = "POST" /\ reqs[i].path = DebugPath) =>
            /\ reqs[i].pc = "done"
            /\ reqs[i].resp =
                 Response(200, [status |-> "success", message |-> "Payload logged"])
            /\ reqs[i].stages = <<>>
            /\ reqs[i].out = <<>>

\* POST /debug with a body that is not JSON has been answered while a rule
\* is registered for "/debug".
C9_Witness ==
    \E i \in Slots :
        /\ reqs[i].pc = "done"
        /\ reqs[i].method = "POST" /\ reqs[i].path = DebugPath
        /\ ~BodyParses(reqs[i])
        /\ DebugPath \in DOMAIN state.registers
        /\ reqs[i].resp.status = 200

\* C10: json_to_template_data returns the keys and values of an object,
\* unchanged also when it has a key "data", and the one-key map
\* {"data": v} for any other value v.
C10_TemplateData ==
    sample.result # <<>> =>
        LET v == sample.value
            data == sample.result[1]
        IN  /\ v.t = "obj" =>
                  /\ DOMAIN data = DOMAIN v.m
                  /\ \A k \in DOMAIN v.m : data[k] = v.m[k]
            /\ v.t # "obj" =>
                  /\ DOMAIN data = {DataKey}
                  /\ data[DataKey] = v

\* The function has been applied to an object that has a key "data".
C10_Witness ==
    /\ sample.result # <<>>
    /\ sample.value.t = "obj"
    /\ DataKey \in DOMAIN sample.value.m
    /\ sample.result[1] = sample.value.m

\* ------------------------------------------------------------------------
\* The registry
\* ------------------------------------------------------------------------
\* The positions in the configuration of the registrations of an endpoint,
\* and the last of them.
Registrations(endpoint) ==
    {k \in 1..Len(config.registers) : config.registers[k].endpoint = endpoint}
LastRegistration(endpoint) ==
    config.registers[CHOOSE k \in Registrations(endpoint) :
                        \A j \in Registrations(endpoint) : j <= k]
ConfiguredEndpoints ==
    {config.registers[k].endpoint : k \in 1..Len(config.registers)}
Shared(endpoint) == Cardinality(Registrations(endpoint)) >= 2

\* What the template of a registration renders for the data of a request.
RenderWith(register, template_data) ==
    RenderElems(Compile(register.template).elems, template_data)

\* C11: when registrations share an endpoint the registry is still built,
\* it has one entry for each distinct endpoint, and the entry of an
\* endpoint has the target and the compiled template of the last
\* registration of that endpoint in the configuration: a request to the
\* endpoint is rendered with that template and sent to that target.
C11_LastRegistrationWins ==
    (\A k \in 1..Len(config.registers) : Compile(config.registers[k].template).ok)
    /\ server # "not_started" =>
        /\ server # "panicked"
        /\ DOMAIN state.registers = ConfiguredEndpoints
        /\ \A e \in ConfiguredEndpoints :
              LET last == LastRegistration(e)
                  entry == state.registers[e]
              IN  /\ entry.endpoint = e
                  /\ entry.target = last.target
                  /\ entry.template \in DOMAIN state.handlebars
                  /\ state.handlebars[entry.template] = Compile(last.template).elems
        /\ \A i \in Slots :
              (InWebhook(i) /\ reqs[i].out # <<>>) =>
                  LET last == LastRegistration(reqs[i].path) IN
                  /\ reqs[i].out[1].url = last.target.url
                  /\ VerbText(reqs[i].out[1].verb) = ToUppercase(last.target.method)
                  /\ reqs[i].out[1].json =
                        FromStr(RenderWith(last, reqs[i].template_data[1]).s).v

\* A request to an endpoint that two registrations share, with different
\* targets and templates, has been sent to the target of the last one.
C11_Witness ==
    \E i \in Slots :
        /\ InWebhook(i) /\ reqs[i].out # <<>>
        /\ Shared(reqs[i].path)
        /\ \E k \in Registrations(reqs[i].path) :
              /\ config.registers[k].target # LastRegistration(reqs[i].path).target
              /\ config.registers[k].template
                    # LastRegistration(reqs[i].path).template
        /\ reqs[i].out[1].url = LastRegistration(reqs[i].path).target.url

\* The registrations whose template does not compile.
FailedTemplates ==
    {k \in 1..Len(config.registers) : ~Compile(config.registers[k].template).ok}

\* C12: when a configured template does not compile the process panics
\* while it builds the registry: it never serves, it holds no registry,
\* not even of the templates that do compile, and no request is ever
\* received or dispatched.
C12_NoServingAfterFailedCompile ==
    (FailedTemplates # {} /\ server # "not_started") =>
        /\ server = "panicked"
        /\ DOMAIN state.registers = {}
        /\ DOMAIN state.handlebars = {}
        /\ \A i \in Slots : reqs[i] = Idle

\* The process has panicked on a configuration that has a template that
\* compiles and one that does not.
C12_Witness ==
    /\ server = "panicked"
    /\ FailedTemplates # {}
    /\ FailedTemplates # 1..Len(config.registers)

\* ------------------------------------------------------------------------
\* Shutdown and cancellation
\* ------------------------------------------------------------------------
InFlight(i) == reqs[i].pc # "idle"

C13_StepOk ==
    /\ server # "serving" =>
          /\ server' # "serving"
          /\ \A i \in Slots : ~InFlight(i) => reqs'[i] = Idle
    /\ server = "draining" =>
          \A i \in Slots :
              (InFlight(i) /\ reqs'[i].pc = "idle") =>
                  reqs[i].pc \in {"done", "cancelled"}
    /\ (server # "stopped" /\ server' = "stopped") =>
          \A i \in Slots : ~InFlight(i)

\* C13: after the shutdown signal no new request is accepted; a request
\* that was in flight at the signal goes on through its stages and its
\* slot is freed only once its response is written (or its caller has gone);
\* the process stops only when no request is in flight.
C13_GracefulShutdown ==
    /\ [](server = "stopped" => \A i \in Slots : ~InFlight(i))
    /\ [][C13_StepOk]_vars

\* After the signal, a request that was in flight has been sent to its
\* target and has its 200 response.
C13_Witness ==
    /\ server = "draining"
    /\ \E i \in Slots :
          /\ InWebhook(i) /\ reqs[i].pc = "done"
          /\ Ran(reqs[i], "read") /\ reqs[i].resp.status = 200

\* C14: when the caller drops the connection after the outbound call was
\* issued, the outbound call is not cancelled: it is still pending, or it
\* has its response, or it has failed on its own.
C14_OutboundSurvivesCancel ==
    \A i \in Slots :
        (reqs[i].pc = "cancelled" /\ reqs[i].out # <<>>) =>
            reqs[i].call \in {"pending", "responded", "completed", "failed"}

\* ------------------------------------------------------------------------
\* Concurrent requests
\* ------------------------------------------------------------------------
\* Two tasks whose requests the handler has taken, with the same path and
\* the same body.
Twins(i, j) ==
    /\ Active(i) /\ InWebhook(i)
    /\ Active(j) /\ InWebhook(j)
    /\ reqs[i].path = reqs[j].path
    /\ reqs[i].body = reqs[j].body

\* C15: two requests with the same path and the same body have the same
\* outbound request (verb, URL, JSON body), or both have none, whatever
\* requests the tasks served before them and whatever runs beside them.
C15_SameRequestSameOutbound ==
    \A i, j \in DOMAIN reqs : Twins(i, j) => reqs[i].out = reqs[j].out

\* Two requests with the same path and body are in flight at different
\* points of their outbound calls, with the same outbound request.
C15_Witness ==
    \E i, j \in DOMAIN reqs :
        /\ i # j /\ Twins(i, j)
        /\ reqs[i].pc = "sending" /\ reqs[j].pc = "reading"
        /\ Len(reqs[i].out) = 1 /\ reqs[i].out = reqs[j].out

\* The registry and the templates that AppState::new builds from the
\* configuration.
BuiltState ==
    LET built == AppStateNew(config) IN
    [registers |-> built.registers, handlebars |-> built.handlebars]

\* C16: in every state of a started server, whatever requests run beside
\* each other and however they end (response, error, cancellation), the
\* registry and the compiled templates are those built at startup from
\* the configuration, and no step changes them.
C16_RegistryReadOnly ==
    /\ [](state = BuiltState)
    /\ [][state' = state /\ config' = config]_vars

\* Beside a cancelled request, a request has ended with an error, and the
\* registry still has its rules.
C16_Witness ==
    \E i, j \in DOMAIN reqs :
        /\ reqs[i].pc = "cancelled"
        /\ reqs[j].pc = "done" /\ InWebhook(j) /\ IsError(reqs[j].resp)
        /\ DOMAIN state.registers # {}
        /\ state = BuiltState

\* The AppState of the same configuration with another declared inbound
\* method in every rule.
WithDeclaredMethod(st, method) ==
    [st EXCEPT !.registers =
        [e \in DOMAIN st.registers |-> [st.registers[e] EXCEPT !.method = method]]]
DeclaredMethods == {GET, POST, <<"p", "u", "t">>, <<"F", "E", "T", "C", "H">>}

Plain(cfg) ==
    [registers |->
        [k \in 1..Len(cfg.registers) |->
            [cfg.registers[k] EXCEPT !.target.headers = EmptyMap,
                                     !.target.timeout_seconds = None,
                                     !.retry_config = None]],
     settings |-> DefaultSettings]
PlainState ==
    LET built == AppStateNew(Plain(config)) IN
    [registers |-> built.registers, handlebars |-> built.handlebars]

SendFailed ==
    Response(500, ErrorResponse("Failed to send request to target: ", ReqwestError))
ReadFailed ==
    Response(500, ErrorResponse("Failed to read response: ", ReqwestError))

\* C18: the outbound request has the verb of the target method, the target
\* url, the content type application/json and the validated rendered JSON,
\* and nothing else; the stages, the outbound request and the response of
\* a request are those of the same configuration without target headers,
\* target timeout, retry settings and application settings, and after the
\* send the response depends on the answer of the target only.
C18_OutboundFromMethodUrlJson ==
    \A i \in Slots :
        (Active(i) /\ InWebhook(i)) =>
            LET r == handle_webhook(PlainState, PathCapture(reqs[i].path),
                                    reqs[i].body)
            IN  /\ reqs[i].out = r.out
                /\ r.done => /\ reqs[i].stages = r.stages
                              /\ reqs[i].resp = r.resp
                /\ reqs[i].out # <<>> =>
                      /\ Len(reqs[i].out) = 1
                      /\ reqs[i].out[1] =
                            [verb |-> reqs[i].out[1].verb,
                             url |-> Rule(reqs[i]).target.url,
                             content_type |-> "application/json",
                             json |-> FromStr(RenderOf(reqs[i]).s).v]
                      /\ VerbText(reqs[i].out[1].verb)
                            = ToUppercase(Rule(reqs[i]).target.method)
                /\ (~r.done /\ reqs[i].pc = "done") =>
                      reqs[i].resp =
                          CASE reqs[i].call = "completed" -> SuccessEnvelope(reqs[i].up)
                            [] reqs[i].up.status = 0 -> SendFailed
                            [] OTHER -> ReadFailed

\* A request to a rule that has target headers and retry settings has been
\* sent, and answered from the body of the target.
C18_Witness ==
    \E i \in Slots :
        /\ InWebhook(i) /\ reqs[i].pc = "done" /\ reqs[i].call = "completed"
        /\ Len(reqs[i].out) = 1
        /\ DOMAIN Rule(reqs[i]).target.headers # {}
        /\ Rule(reqs[i]).retry_config.some
        /\ state # PlainState

\* ------------------------------------------------------------------------
\* hermes-admin and the server
\* ------------------------------------------------------------------------
\* C19: test-template on an endpoint and a payload succeeds exactly when a
\* request to that endpoint with that payload as its body passes the
\* lookup, the parse, the render and the validation of the rendered text,
\* also when several registrations share the endpoint.
C19_TestTemplateMatchesDispatch ==
    \A i \in Slots :
        (/\ admin.cmd = "test-template"
         /\ Active(i) /\ InWebhook(i)
         /\ reqs[i].path = admin.endpoint
         /\ reqs[i].body = admin.payload) =>
            (admin.ok <=> Ran(reqs[i], "method"))

\* C20: no request to a server whose configuration validate-config
\* accepts is answered 500 "Unsupported HTTP method".
C20_ValidatedConfigNeverUnsupported ==
    (admin.cmd = "validate-config" /\ admin.ok) =>
        \A i \in Slots :
            (reqs[i].pc = "done" /\ InWebhook(i)) =>
                ~(/\ IsError(reqs[i].resp)
                  /\ reqs[i].resp.body.error.msg = "Unsupported HTTP method: ")

\* ------------------------------------------------------------------------
\* Termination of a request
\* ------------------------------------------------------------------------
Pending(i) == reqs[i].pc \in {"received", "sending", "reading"}
Responded(i) == reqs[i].pc = "done"
Cancelled(i) == reqs[i].pc = "cancelled"

C21_OneResponse(i) ==
    /\ (Responded(i) /\ InWebhook(i)) =>
          \/ reqs[i].resp.status = 200 /\ ~IsError(reqs[i].resp)
          \/ reqs[i].resp.status \in {400, 404, 500} /\ IsError(reqs[i].resp)
    /\ Pending(i) => reqs[i].resp = NoResponse

C21_ResponseKept(i) ==
    Responded(i) => (reqs'[i] = reqs[i] \/ reqs'[i] = Idle)

\* C21: every request that has arrived and is not cancelled ends in one
\* terminal response, the 200 envelope or a 404, 400 or 500 error: given
\* that the outbound call returns or fails within the timeout of the
\* client, no request stays in an intermediate stage for ever; a request
\* has no response before its terminal one, and its response is never
\* replaced by another. (The steps that the fairness condition names as
\* DispatchWebhookTabled are the steps DispatchWebhook.)
C21_EveryRequestEnds ==
    /\ \A i \in Slots : Pending(i) ~> (Responded(i) \/ Cancelled(i))
    /\ [][\A i \in Slots : DispatchWebhook(i) <=> DispatchWebhookTabled(i)]_vars
    /\ [](\A i \in Slots : C21_OneResponse(i))
    /\ [][\A i \in Slots : C21_ResponseKept(i)]_vars

\* A request whose outbound call has failed while the body of the target's
\* response was read has its one response, the 500 of that failure.
C21_Witness ==
    \E i \in Slots :
        /\ Responded(i) /\ InWebhook(i)
        /\ reqs[i].up.status # 0 /\ reqs[i].call = "failed"
        /\ reqs[i].resp = ReadFailed

====
